---- MODULE Spec2Model ----
(***************************************************************************)
(* TaskManager escrow contract (Solidity) of AuditHive.                    *)
(*                                                                         *)
(* The contract storage (tasks, projectIds), the ether it holds, the event *)
(* log and the ether paid out are the state.  A call that hands control to *)
(* foreign code (the refund in cancelTask, when the submitter is a         *)
(* contract) suspends in a frame on `stack`; the recipient may then return,*)
(* revert, or call back into the contract before it does either.           *)
(***************************************************************************)
EXTENDS Integers, Sequences, FiniteSets, TLC

\* ---------------------------------------------------------------- bounds
MaxTasks == 2      \* successful submissions explored (length of projectIds)
MaxDepth == 2      \* nested cancelTask frames suspended in their refund call

\* ---------------------------------------------------------------- inputs
ZeroAddr == "0x0"
EOAs == {"alice"}                 \* externally owned accounts: no code
Contracts == {"mallory"}          \* accounts with code (a receive function)
Addrs == EOAs \cup Contracts
ProjectIdStrings == {"", "p1", "p2"}
RepoStrings == {"r"}
TitleStrings == {"", "t"}
Wei == {0, 1}                   \* bounties and attached values, in wei

\* ------------------------------------------------- revert reason strings
ErrEmptyId == "Project ID cannot be empty"
ErrEmptyTitle == "Title cannot be empty"
ErrExists == "Project ID already exists"
ErrValue == "Sent ETH must match bounty amount"
ErrNotActive == "Task does not exist"
ErrNotSubmitter == "Only submitter can cancel"
ErrRefund == "Failed to return ETH"
Ok == "ok"

VARIABLES
    tasks,        \* mapping(string => Task)
    projectIds,   \* string[]
    balance,      \* ether held by the contract
    events,       \* log of emitted events
    received,     \* address -> wei received from the contract
    refunded,     \* projectId -> wei sent out by cancelTask(projectId)
    stack         \* suspended cancelTask frames, innermost last

chain == <<tasks, projectIds, balance, events, received, refunded>>
vars == <<tasks, projectIds, balance, events, received, refunded, stack>>

\* The value of a storage slot never written: every field zero.
EmptyTask ==
    [projectId |-> "", projectRepo |-> "", title |-> "", bounty |-> 0,
     submitter |-> ZeroAddr, isActive |-> FALSE]

\* Everything a revert rolls back.
Snapshot ==
    [tasks |-> tasks, projectIds |-> projectIds, balance |-> balance,
     events |-> events, received |-> received, refunded |-> refunded]

TaskSubmitted(projectId, projectRepo, title, bounty, submitter) ==
    [type |-> "TaskSubmitted", projectId |-> projectId, projectRepo |-> projectRepo,
     title |-> title, bounty |-> bounty, submitter |-> submitter]

TaskCancelled(projectId) ==
    [type |-> "TaskCancelled", projectId |-> projectId]

Init ==
    /\ tasks = [p \in ProjectIdStrings |-> EmptyTask]
    /\ projectIds = <<>>
    /\ balance = 0
    /\ events = <<>>
    /\ received = [a \in Addrs |-> 0]
    /\ refunded = [p \in ProjectIdStrings |-> 0]
    /\ stack = <<>>

\* Who can call the contract now: anyone between transactions; while a refund
\* call is in progress, the code of the account receiving it.
Callers ==
    IF stack = <<>> THEN Addrs ELSE {stack[Len(stack)].to}

\* submitTaskCheck with the value check weakened to "at least the bounty".
submitTaskCheckUnderpay(_projectId, _title, _bountyInWei, value) ==
    IF _projectId = "" THEN ErrEmptyId
    ELSE IF _title = "" THEN ErrEmptyTitle
    ELSE IF tasks[_projectId].isActive THEN ErrExists
    ELSE IF value < _bountyInWei THEN ErrValue
    ELSE Ok

\* The first failing require of submitTask (lines 61-64), or Ok.
submitTaskCheck(_projectId, _title, _bountyInWei, value) ==
    IF _projectId = "" THEN ErrEmptyId
    ELSE IF _title = "" THEN ErrEmptyTitle
    ELSE IF tasks[_projectId].isActive THEN ErrExists
    ELSE IF value # _bountyInWei THEN ErrValue
    ELSE Ok

\* newTask with the repository and the title stored in each other's field.
newTaskSwapped(sender, _projectId, _projectRepo, _title, _bountyInWei) ==
    [projectId |-> _projectId, projectRepo |-> _title, title |-> _projectRepo,
     bounty |-> _bountyInWei, submitter |-> sender, isActive |-> TRUE]

\* The struct submitTask stores (lines 66-73).
newTask(sender, _projectId, _projectRepo, _title, _bountyInWei) ==
    [projectId |-> _projectId, projectRepo |-> _projectRepo, title |-> _title,
     bounty |-> _bountyInWei, submitter |-> sender, isActive |-> TRUE]

\* A reverting call leaves every variable as it was.
submitTask(sender, _projectId, _projectRepo, _title, _bountyInWei, value) ==
    IF submitTaskCheck(_projectId, _title, _bountyInWei, value) # Ok
    THEN UNCHANGED vars
    ELSE /\ Len(projectIds) < MaxTasks
         /\ tasks' = [tasks EXCEPT ![_projectId] =
                newTask(sender, _projectId, _projectRepo, _title, _bountyInWei)]
         /\ projectIds' = Append(projectIds, _projectId)
         /\ balance' = balance + value
         /\ events' = Append(events,
                TaskSubmitted(_projectId, _projectRepo, _title, _bountyInWei, sender))
         /\ UNCHANGED <<received, refunded, stack>>

SubmitTask ==
    \E sender \in Callers, p \in ProjectIdStrings, r \in RepoStrings,
       t \in TitleStrings, b \in Wei, v \in Wei :
        submitTask(sender, p, r, t, b, v)

\* cancelTaskCheck testing that a Task was stored instead of that it is active.
cancelTaskCheckExists(sender, _projectId) ==
    IF tasks[_projectId].submitter = ZeroAddr THEN ErrNotActive
    ELSE IF tasks[_projectId].submitter # sender THEN ErrNotSubmitter
    ELSE Ok

\* cancelTaskCheck without the submitter check.
cancelTaskCheckAnyone(sender, _projectId) ==
    IF ~tasks[_projectId].isActive THEN ErrNotActive
    ELSE Ok

\* The requires of cancelTask ahead of the refund (lines 85-86), or Ok.
cancelTaskCheck(sender, _projectId) ==
    IF ~tasks[_projectId].isActive THEN ErrNotActive
    ELSE IF tasks[_projectId].submitter # sender THEN ErrNotSubmitter
    ELSE Ok

\* task.isActive = false; emit TaskCancelled(_projectId)  (lines 91-92)
cancelTaskFinish(_projectId) ==
    /\ tasks' = [tasks EXCEPT ![_projectId].isActive = FALSE]
    /\ events' = Append(events, TaskCancelled(_projectId))

\* The ether moved by task.submitter.call{value: task.bounty}("")  (line 88)
refundTransfer(_projectId) ==
    LET task == tasks[_projectId] IN
    /\ balance' = balance - task.bounty
    /\ received' = [received EXCEPT ![task.submitter] = @ + task.bounty]
    /\ refunded' = [refunded EXCEPT ![_projectId] = @ + task.bounty]

\* The refund call cannot be made: the contract holds less than the bounty,
\* so sent = false and require(sent, ...) reverts with ErrRefund.
refundUnfunded(_projectId) == balance < tasks[_projectId].bounty

\* The outcome of a cancelTask call up to the point where the recipient's
\* code, if any, takes over: an error, or Ok.
cancelTaskResult(sender, _projectId) ==
    IF cancelTaskCheck(sender, _projectId) # Ok THEN cancelTaskCheck(sender, _projectId)
    ELSE IF refundUnfunded(_projectId) THEN ErrRefund
    ELSE Ok

cancelTask(sender, _projectId) ==
    LET task == tasks[_projectId] IN
    IF cancelTaskResult(sender, _projectId) # Ok THEN
        UNCHANGED vars
    ELSE IF task.submitter \in EOAs THEN
        \* no code at the recipient: the transfer succeeds and the call finishes
        /\ refundTransfer(_projectId)
        /\ cancelTaskFinish(_projectId)
        /\ UNCHANGED <<projectIds, stack>>
    ELSE
        \* the recipient's code runs with the ether already moved
        /\ Len(stack) < MaxDepth
        /\ refundTransfer(_projectId)
        /\ stack' = Append(stack,
               [projectId |-> _projectId, to |-> task.submitter, snap |-> Snapshot])
        /\ UNCHANGED <<tasks, projectIds, events>>

CancelTask ==
    \E sender \in Callers, p \in ProjectIdStrings : cancelTask(sender, p)

\* refundFailed with the result of the call ignored: the call's own effects
\* are undone, and cancelTask carries on to lines 91-92.
refundFailedIgnored(frame) ==
    [frame.snap EXCEPT
        !.tasks = [@ EXCEPT ![frame.projectId].isActive = FALSE],
        !.events = Append(@, TaskCancelled(frame.projectId))]

\* The state after the refund call of `frame` failed: sent = false, and
\* require(sent, ...) (line 89) reverts cancelTask to the state it was entered in.
refundFailed(frame) == frame.snap

\* The recipient of the innermost refund returns normally: sent = true.
ReceiveAccept ==
    /\ stack # <<>>
    /\ cancelTaskFinish(stack[Len(stack)].projectId)
    /\ stack' = SubSeq(stack, 1, Len(stack) - 1)
    /\ UNCHANGED <<projectIds, balance, received, refunded>>

\* The recipient of the innermost refund reverts (or has no payable receive):
\* sent = false, so require(sent, ...) reverts the cancelTask call.
ReceiveReject ==
    /\ stack # <<>>
    /\ LET back == refundFailed(stack[Len(stack)]) IN
        /\ tasks' = back.tasks
        /\ projectIds' = back.projectIds
        /\ balance' = back.balance
        /\ events' = back.events
        /\ received' = back.received
        /\ refunded' = back.refunded
    /\ stack' = SubSeq(stack, 1, Len(stack) - 1)

\* The value getTask returns (lines 104-119).
getTask(_projectId) ==
    LET task == tasks[_projectId] IN
    <<task.title, task.projectRepo, task.bounty, task.submitter, task.isActive>>

\* getAllTasks with the titles and the repositories in each other's place.
getAllTasksSwapped ==
    LET length == Len(projectIds) IN
    <<projectIds,
      [i \in 1..length |-> tasks[projectIds[i]].projectRepo],
      [i \in 1..length |-> tasks[projectIds[i]].title],
      [i \in 1..length |-> tasks[projectIds[i]].bounty],
      [i \in 1..length |-> tasks[projectIds[i]].submitter],
      [i \in 1..length |-> tasks[projectIds[i]].isActive]>>

\* The value getAllTasks returns (lines 130-155).
getAllTasks ==
    LET length == Len(projectIds) IN
    <<projectIds,
      [i \in 1..length |-> tasks[projectIds[i]].title],
      [i \in 1..length |-> tasks[projectIds[i]].projectRepo],
      [i \in 1..length |-> tasks[projectIds[i]].bounty],
      [i \in 1..length |-> tasks[projectIds[i]].submitter],
      [i \in 1..length |-> tasks[projectIds[i]].isActive]>>

\* What a view call does to the state: nothing.
viewEffect == UNCHANGED vars

GetTask ==
    \E p \in ProjectIdStrings : Len(getTask(p)) = 5 /\ viewEffect

GetAllTasks ==
    Len(getAllTasks) = 6 /\ viewEffect

\* ================================================================ claims

\* The project ids of the TaskSubmitted events, in emission order.
SubmittedIds ==
    LET subs == SelectSeq(events, LAMBDA e : e.type = "TaskSubmitted") IN
    [i \in 1..Len(subs) |-> subs[i].projectId]

EverSubmitted(p) == \E i \in 1..Len(events) :
    events[i].type = "TaskSubmitted" /\ events[i].projectId = p

EverCancelled(p) == \E i \in 1..Len(events) :
    events[i].type = "TaskCancelled" /\ events[i].projectId = p

\* C1: once a Task has been created for a project id, every further submitTask
\* for that id fails with "Project ID already exists" (also when the Task is
\* inactive), so no project id is the subject of two TaskSubmitted events.
C1_OneTaskPerProjectId ==
    \A p \in ProjectIdStrings :
        /\ EverSubmitted(p) =>
              \A b \in Wei : submitTaskCheck(p, "t", b, b) = ErrExists
        /\ Cardinality({i \in 1..Len(events) :
              events[i].type = "TaskSubmitted" /\ events[i].projectId = p}) <= 1

\* C2: between transactions, a Task that has been cancelled (it has a submitter
\* and isActive is false) is never active again after the next transaction.
C2_InactiveIsTerminal ==
    [][\A p \in ProjectIdStrings :
         (stack = <<>> /\ stack' = <<>> /\ tasks[p].submitter # ZeroAddr
            /\ ~tasks[p].isActive) => ~tasks'[p].isActive]_vars

\* What a cancelTask(p) call that returns normally has done since it was
\* entered in state `pre`: paid out the bounty of p once, to its submitter,
\* deactivated the Task and emitted TaskCancelled(p) last.
CancelPost(p, pre) ==
    /\ refunded'[p] = pre.refunded[p] + pre.tasks[p].bounty
    /\ received'[pre.tasks[p].submitter] >=
          pre.received[pre.tasks[p].submitter] + pre.tasks[p].bounty
    /\ ~tasks'[p].isActive
    /\ events'[Len(events')] = TaskCancelled(p)

\* C3: a cancelTask(p) call that succeeds has, from entry to return, sent
\* exactly the recorded bounty of p to the recorded submitter, set isActive to
\* false and emitted TaskCancelled(p); and the contract's balance only ever
\* drops by a refund to the recorded submitter of an active Task.
C3_CancelRefundsExactlyBounty ==
    [][/\ UNCHANGED vars \/ \A c \in Callers, p \in ProjectIdStrings :
            (cancelTaskResult(c, p) = Ok /\ tasks[p].submitter \in EOAs
               /\ cancelTask(c, p)) => CancelPost(p, Snapshot)
       /\ ReceiveAccept =>
            CancelPost(stack[Len(stack)].projectId, stack[Len(stack)].snap)
       /\ (balance' < balance /\ Len(stack') >= Len(stack)) =>
            \E p \in ProjectIdStrings :
               /\ tasks[p].isActive
               /\ balance' = balance - tasks[p].bounty
               /\ received' = [received EXCEPT ![tasks[p].submitter] =
                                  @ + tasks[p].bounty]]_vars

\* C4: when the refund transfer of cancelTask fails (the recipient reverts, or
\* the contract cannot fund the transfer) the call reverts: every variable is
\* as it was when the call was entered, the Task is active, the contract holds
\* at least its bounty and the event log has no new event.
C4_FailedRefundReverts ==
    [][/\ ReceiveReject =>
            LET frame == stack[Len(stack)] IN
            /\ tasks' = frame.snap.tasks
            /\ projectIds' = frame.snap.projectIds
            /\ balance' = frame.snap.balance
            /\ events' = frame.snap.events
            /\ received' = frame.snap.received
            /\ refunded' = frame.snap.refunded
            /\ tasks'[frame.projectId].isActive
            /\ balance' >= tasks'[frame.projectId].bounty
       /\ UNCHANGED vars \/ \A c \in Callers, p \in ProjectIdStrings :
            ~(cancelTaskCheck(c, p) = Ok /\ refundUnfunded(p) /\ cancelTask(c, p))]_vars

\* A refund of a funded Task is in flight to a recipient that has already made
\* a further call emit an event, and can still reject the refund.
C4_Witness ==
    /\ stack # <<>>
    /\ tasks[stack[Len(stack)].projectId].bounty > 0
    /\ balance < stack[Len(stack)].snap.balance
    /\ Len(events) > Len(stack[Len(stack)].snap.events)

\* C5: cancelTask on a project id whose Task is inactive or was never
\* submitted fails with "Task does not exist" for every caller, and the call
\* changes nothing.
C5_CancelInactiveFails ==
    /\ [](\A c \in Addrs, p \in ProjectIdStrings :
            ~tasks[p].isActive => cancelTaskResult(c, p) = ErrNotActive)
    /\ [][UNCHANGED vars \/ \A c \in Callers, p \in ProjectIdStrings :
            ~(~tasks[p].isActive /\ cancelTask(c, p))]_vars

\* A cancelled Task whose submitter could try to cancel it again while the
\* contract still holds enough to pay, next to a never-submitted id.
C5_Witness ==
    \E p, q \in ProjectIdStrings :
        /\ EverCancelled(p) /\ ~tasks[p].isActive
        /\ tasks[p].bounty > 0 /\ balance >= tasks[p].bounty
        /\ q # "" /\ ~EverSubmitted(q)

\* C6: cancelTask on an active Task by anyone but its recorded submitter fails
\* with "Only submitter can cancel", and the call changes nothing.
C6_CancelByOtherFails ==
    /\ [](\A c \in Addrs, p \in ProjectIdStrings :
            (tasks[p].isActive /\ c # tasks[p].submitter)
               => cancelTaskResult(c, p) = ErrNotSubmitter)
    /\ [][UNCHANGED vars \/ \A c \in Callers, p \in ProjectIdStrings :
            ~(tasks[p].isActive /\ c # tasks[p].submitter /\ cancelTask(c, p))]_vars

\* A funded active Task and a caller who is not its submitter.
C6_Witness ==
    \E p \in ProjectIdStrings, c \in Callers :
        /\ tasks[p].isActive /\ c # tasks[p].submitter
        /\ tasks[p].bounty > 0 /\ balance >= tasks[p].bounty

\* C7 as stated: submitTask with value # bounty always fails with
\* "Sent ETH must match bounty amount".
C7_MismatchIsAlwaysValueError ==
    \A p \in ProjectIdStrings, t \in TitleStrings, b \in Wei, v \in Wei :
        v # b => submitTaskCheck(p, t, b, v) = ErrValue

\* C7 as amended: submitTask with value # bounty always fails, with "Sent ETH
\* must match bounty amount" when the id and the title are not empty and no
\* active Task holds the id (otherwise with the failure of that earlier
\* check), and the call changes nothing.
C7_MismatchFailsUnchanged ==
    /\ [](\A p \in ProjectIdStrings, t \in TitleStrings, b \in Wei, v \in Wei :
            v # b =>
              /\ submitTaskCheck(p, t, b, v) # Ok
              /\ (p # "" /\ t # "" /\ ~tasks[p].isActive)
                    => submitTaskCheck(p, t, b, v) = ErrValue)
    /\ [][UNCHANGED vars \/ \A c \in Callers, p \in ProjectIdStrings,
             r \in RepoStrings, t \in TitleStrings, b \in Wei, v \in Wei :
            ~(v # b /\ submitTask(c, p, r, t, b, v))]_vars

\* A registry holding an active funded Task and a cancelled one.
C7_Witness ==
    /\ balance > 0
    /\ \E p \in ProjectIdStrings : tasks[p].isActive
    /\ \E p \in ProjectIdStrings : EverCancelled(p) /\ ~tasks[p].isActive

\* C8: submitTask reports the first violated precondition in the order empty
\* project id, empty title, project id already taken (by a Task ever created,
\* active or not), value # bounty.
C8_FirstViolatedPrecondition ==
    \A p \in ProjectIdStrings, t \in TitleStrings, b \in Wei, v \in Wei :
        submitTaskCheck(p, t, b, v) =
            IF p = "" THEN ErrEmptyId
            ELSE IF t = "" THEN ErrEmptyTitle
            ELSE IF EverSubmitted(p) THEN ErrExists
            ELSE IF v # b THEN ErrValue
            ELSE Ok

\* C9: a submitTask call that succeeds stores the Task (active, submitter the
\* caller, bounty the attached value, the given repo and title) and no other
\* Task, appends the id to projectIds, adds exactly the bounty to the
\* contract's balance and emits one TaskSubmitted with the call's values.
C9_SubmitEffect ==
    [][UNCHANGED vars \/ \A c \in Callers, p \in ProjectIdStrings,
          r \in RepoStrings, t \in TitleStrings, b \in Wei, v \in Wei :
         (submitTaskCheck(p, t, b, v) = Ok /\ submitTask(c, p, r, t, b, v)) =>
            /\ tasks'[p] = [projectId |-> p, projectRepo |-> r, title |-> t,
                            bounty |-> v, submitter |-> c, isActive |-> TRUE]
            /\ \A q \in ProjectIdStrings \ {p} : tasks'[q] = tasks[q]
            /\ projectIds' = Append(projectIds, p)
            /\ balance' = balance + b
            /\ events' = Append(events, TaskSubmitted(p, r, t, b, c))
            /\ UNCHANGED <<received, refunded, stack>>]_vars

\* A funded Task was submitted last, after an earlier submission.
C9_Witness ==
    /\ Len(events) >= 2
    /\ events[Len(events)].type = "TaskSubmitted"
    /\ events[Len(events)].bounty = 1
    /\ tasks[events[Len(events)].projectId].isActive
    /\ projectIds[Len(projectIds)] = events[Len(events)].projectId

\* C10: getAllTasks returns six arrays of one length; the first lists the ids
\* of all successful submissions in submission order, and position i of the
\* others is what getTask returns now for the id at position i; getTask and
\* getAllTasks change nothing.
C10_GetAllTasksProjection ==
    /\ [](LET all == getAllTasks IN
          /\ Len(all) = 6
          /\ \A k \in 1..6 : Len(all[k]) = Len(all[1])
          /\ all[1] = SubmittedIds
          /\ \A i \in 1..Len(all[1]) :
                <<all[2][i], all[3][i], all[4][i], all[5][i], all[6][i]>>
                   = getTask(all[1][i]))
    /\ [][UNCHANGED vars \/ ~(GetTask \/ GetAllTasks)]_vars

\* Two submissions are listed, one of them cancelled since.
C10_Witness ==
    /\ Len(getAllTasks[1]) = 2
    /\ \E i \in 1..2 : ~getAllTasks[6][i] /\ getAllTasks[5][i] # ZeroAddr
    /\ \E i \in 1..2 : getAllTasks[6][i]

\* C11: the id list and the mapping never diverge: every project id that has
\* a Task record is listed exactly once in projectIds, and every listed id has
\* a Task record whose projectId is that id.
C11_IdListMatchesMapping ==
    /\ \A p \in ProjectIdStrings :
          tasks[p] # EmptyTask =>
             Cardinality({i \in 1..Len(projectIds) : projectIds[i] = p}) = 1
    /\ \A i \in 1..Len(projectIds) :
          tasks[projectIds[i]].projectId = projectIds[i]

\* The values of the first TaskSubmitted event for project id p, in the
\* order getTask reports them.
FirstSubmitted(p) ==
    LET i == CHOOSE k \in 1..Len(events) :
                 /\ events[k].type = "TaskSubmitted" /\ events[k].projectId = p
                 /\ \A j \in 1..(k - 1) :
                       ~(events[j].type = "TaskSubmitted"
                         /\ events[j].projectId = p)
    IN  <<events[i].title, events[i].projectRepo, events[i].bounty,
          events[i].submitter>>

\* C12: once a project has been cancelled, getTask and getAllTasks report for
\* it, at any later time, the title, repo, bounty and submitter of its first
\* submission, and isActive false.
C12_CancelledTaskFrozen ==
    \A p \in ProjectIdStrings :
       EverCancelled(p) =>
          /\ getTask(p) = FirstSubmitted(p) \o <<FALSE>>
          /\ \A i \in 1..Len(projectIds) :
                projectIds[i] = p =>
                   <<getAllTasks[2][i], getAllTasks[3][i], getAllTasks[4][i],
                     getAllTasks[5][i], getAllTasks[6][i]>>
                      = FirstSubmitted(p) \o <<FALSE>>

\* The bounties escrowed for a project id: those of its TaskSubmitted events.
RECURSIVE SumBounty(_)
SumBounty(submitted) ==
    IF submitted = <<>> THEN 0
    ELSE Head(submitted).bounty + SumBounty(Tail(submitted))

SubmittedBounty(p) ==
    SumBounty(SelectSeq(events,
        LAMBDA e : e.type = "TaskSubmitted" /\ e.projectId = p))

\* C24: the ether cancelTask has sent out for a project id never exceeds the
\* bounty escrowed for it by submitTask, also while a refund is in progress
\* and its recipient calls cancelTask for the same id again.
C24_RefundAtMostOnce ==
    \A p \in ProjectIdStrings : refunded[p] <= SubmittedBounty(p)

\* The sum of the bounty fields of the Tasks of a set of project ids.
RECURSIVE SumTaskBounty(_)
SumTaskBounty(ids) ==
    IF ids = {} THEN 0
    ELSE LET p == CHOOSE q \in ids : TRUE
         IN  tasks[p].bounty + SumTaskBounty(ids \ {p})

ActiveBounties == SumTaskBounty({p \in ProjectIdStrings : tasks[p].isActive})

\* C25: between transactions the ether the contract holds is the sum of the
\* bounties of the active Tasks.
C25_EscrowSolvency ==
    stack = <<>> => balance = ActiveBounties

\* The events of a type for a project id among the first k of a log.
EventsOf(log, type, p, k) ==
    {i \in 1..k : log[i].type = type /\ log[i].projectId = p}

\* C26: in every prefix of the event log, for every project id, there are no
\* more TaskCancelled events than TaskSubmitted events (so every TaskCancelled
\* has a TaskSubmitted of the id before it); and when a cancelTask call that
\* succeeds returns, its TaskCancelled is the last event and the log holds
\* one TaskCancelled of its id more than when the call was entered.
C26_CancelledFollowsSubmitted ==
    /\ [](\A p \in ProjectIdStrings, k \in 0..Len(events) :
            Cardinality(EventsOf(events, "TaskCancelled", p, k))
               <= Cardinality(EventsOf(events, "TaskSubmitted", p, k)))
    /\ [][/\ UNCHANGED vars \/ \A c \in Callers, p \in ProjectIdStrings :
               (cancelTaskResult(c, p) = Ok /\ tasks[p].submitter \in EOAs
                  /\ cancelTask(c, p))
                  => events' = Append(events, TaskCancelled(p))
          /\ ReceiveAccept =>
               LET frame == stack[Len(stack)] IN
               /\ events'[Len(events')] = TaskCancelled(frame.projectId)
               /\ Cardinality(EventsOf(events', "TaskCancelled",
                                       frame.projectId, Len(events')))
                     = Cardinality(EventsOf(frame.snap.events, "TaskCancelled",
                                            frame.projectId,
                                            Len(frame.snap.events))) + 1]_vars

\* A call by `sender` has left alone every Task recorded for another
\* submitter, and has taken ether out of the contract only as the bounty of
\* an active Task of the sender's.
OthersUntouched(sender) ==
    /\ \A q \in ProjectIdStrings :
          tasks[q].submitter \notin {ZeroAddr, sender}
             => tasks'[q] = tasks[q] /\ refunded'[q] = refunded[q]
    /\ balance' < balance =>
          \E p \in ProjectIdStrings :
             /\ tasks[p].isActive /\ tasks[p].submitter = sender
             /\ balance' = balance - tasks[p].bounty

\* C27: no call of any address (the owner is one of them: the contract has
\* no function restricted to the owner and never reads it) deactivates or
\* changes a Task recorded for another submitter or pays out its bounty.
C27_OnlySubmitterTouchesTask ==
    [][UNCHANGED vars
       \/ \A c \in Callers :
             /\ \A p \in ProjectIdStrings, r \in RepoStrings,
                   t \in TitleStrings, b \in Wei, v \in Wei :
                   submitTask(c, p, r, t, b, v) => OthersUntouched(c)
             /\ \A p \in ProjectIdStrings :
                   cancelTask(c, p) => OthersUntouched(c)]_vars

\* ============================================== browse-tasks page (frontend)

\* ethers.formatEther of a bounty in wei: the decimal string in ether.
formatEther(wei) ==
    IF wei = 0 THEN "0.0" ELSE "0.000000000000000001"

\* The Task objects fetchTasks builds from the six arrays getAllTasks
\* returned, one for each index of the ids.
formattedTasks(result) ==
    LET ids == result[1]
        titles == result[2]
        repos == result[3]
        bounties == result[4]
        submitters == result[5]
        actives == result[6]
    IN  [index \in 1..Len(ids) |->
           [projectId |-> ids[index],
            projectRepo |-> repos[index],
            title |-> titles[index],
            bounty |-> <<formatEther(bounties[index]), " ETH">>,
            submitter |-> submitters[index],
            isActive |-> actives[index]]]

\* The entries the page renders: tasks.filter(task => task.isActive), each
\* under the key task.projectId.
BrowseTasks(fetched) ==
    SelectSeq(fetched, LAMBDA task : task.isActive)

\* C28: between transactions, the list the page derives from getAllTasks has
\* one entry for every project id whose Task is active, none for a project
\* id whose Task is not, and no two entries with the same project id.
C28_BrowseListsActiveOnce ==
    LET list == BrowseTasks(formattedTasks(getAllTasks)) IN
    stack = <<>> =>
       /\ \A p \in ProjectIdStrings :
             tasks[p].isActive =>
                Cardinality({i \in 1..Len(list) : list[i].projectId = p}) = 1
       /\ \A i \in 1..Len(list) : tasks[list[i].projectId].isActive
       /\ \A i, j \in 1..Len(list) :
             list[i].projectId = list[j].projectId => i = j

\* ============================================== deliver-work page (frontend)

\* The longest findings array of a pasted batch.
MaxFindings == 2

\* JSON values as JSON.parse returns them, by JavaScript type; Undefined is
\* what reading an absent property gives.
Undefined == [t |-> "undefined", v |-> ""]
Null == [t |-> "null", v |-> ""]
Str(s) == [t |-> "string", v |-> s]
Num(n) == [t |-> "number", v |-> n]

\* JavaScript truthiness: !x is FALSE exactly for these.
Truthy(x) ==
    \/ x.t = "string" /\ x.v # ""
    \/ x.t = "number" /\ x.v # "0"
    \/ x.t \in {"object", "array"}

\* The guard written for every field: !x || typeof x !== 'string'.
MissingOrInvalid(x) == ~Truthy(x) \/ x.t # "string"

FindingFields ==
    <<"finding_id", "description", "severity", "recommendation", "code_reference">>

\* The well-formed value of each field, and one ill-formed value for it.
GoodValue ==
    [finding_id |-> Str("F-1"), description |-> Str("d"), severity |-> Str("HIGH"),
     recommendation |-> Str("fix"), code_reference |-> Str("a.py:1")]

BadValue ==
    [finding_id |-> Undefined, description |-> Str(""), severity |-> Num("7"),
     recommendation |-> Null, code_reference |-> Num("0")]

\* The sets of fields that are ill-formed together in one finding.
BadFieldSets ==
    {{}} \cup {{FindingFields[i]} : i \in 1..5}
         \cup {{"finding_id", "code_reference"}, {"description", "severity"}}

\* An element of the findings array: an object, or null.
FindingObject(bad) ==
    [t |-> "object",
     f |-> [k \in {FindingFields[i] : i \in 1..5} |->
               IF k \in bad THEN BadValue[k] ELSE GoodValue[k]]]

NullFinding == [t |-> "null", f |-> GoodValue]

FindingValues == {FindingObject(bad) : bad \in BadFieldSets} \cup {NullFinding}

FindingArrays ==
    UNION {[1..n -> FindingValues] : n \in 0..MaxFindings}

\* The value of the findings property: an array, absent, or a string.
FindingsValues ==
    {[t |-> "array", items |-> a] : a \in FindingArrays}
       \cup {[t |-> "undefined", items |-> <<>>], [t |-> "string", items |-> <<>>]}

TopValues == {Str("AD1"), Str(""), Undefined, Num("7")}

\* The value null, with what reading its properties would give had it any.
NullData ==
    [t |-> "null", project_id |-> Undefined, reported_by_agent |-> Undefined,
     findings |-> [t |-> "undefined", items |-> <<>>]]

\* What the pasted text parses to: null, or an object with the three
\* properties, any findings under well-formed project_id and
\* reported_by_agent and a few findings under ill-formed ones.
WorkDataValues ==
    {[t |-> "object", project_id |-> Str("AD1"), reported_by_agent |-> Str("a1"),
      findings |-> f] : f \in FindingsValues}
       \cup {[t |-> "object", project_id |-> p, reported_by_agent |-> a,
               findings |-> f] :
                 p \in TopValues, a \in TopValues,
                 f \in {[t |-> "undefined", items |-> <<>>],
                        [t |-> "array", items |-> <<>>],
                        [t |-> "array", items |-> <<FindingObject({"finding_id"})>>]}}
       \cup {NullData}

\* The text of the textarea: empty, something JSON.parse rejects, or the JSON
\* text of a value.
EmptyText == [k |-> "empty", value |-> NullData]
GarbageText == [k |-> "garbage", value |-> NullData]
JsonText(data) == [k |-> "json", value |-> data]
Texts == {GarbageText} \cup {JsonText(d) : d \in WorkDataValues}

\* A call's result: it returned, or it threw an Error with this message. A
\* message is the sequence of the pieces it is put together from.
Returned == [threw |-> FALSE, message |-> <<>>]
Threw(message) == [threw |-> TRUE, message |-> message]

\* The message of the TypeError of reading property name of null.
TypeErrorMessage(name) ==
    <<"Cannot read properties of null (reading '", name, "')">>

\* The message of the SyntaxError of JSON.parse.
SyntaxErrorMessage == <<"Unexpected token in JSON">>

FindingMessage(index, name) ==
    <<"Finding ", ToString(index + 1), ": Missing or invalid ", name>>

\* validateFinding checking the finding_id only.
validateFindingIdOnly(finding, index) ==
    IF finding.t = "null" THEN Threw(TypeErrorMessage("finding_id"))
    ELSE IF MissingOrInvalid(finding.f.finding_id)
         THEN Threw(FindingMessage(index, "finding_id"))
    ELSE Returned

\* validateWorkData's check of findings[index] (lines 39-55): the first throw.
validateFinding(finding, index) ==
    IF finding.t = "null" THEN Threw(TypeErrorMessage("finding_id"))
    ELSE IF MissingOrInvalid(finding.f.finding_id)
         THEN Threw(FindingMessage(index, "finding_id"))
    ELSE IF MissingOrInvalid(finding.f.description)
         THEN Threw(FindingMessage(index, "description"))
    ELSE IF MissingOrInvalid(finding.f.severity)
         THEN Threw(FindingMessage(index, "severity"))
    ELSE IF MissingOrInvalid(finding.f.recommendation)
         THEN Threw(FindingMessage(index, "recommendation"))
    ELSE IF MissingOrInvalid(finding.f.code_reference)
         THEN Threw(FindingMessage(index, "code_reference"))
    ELSE Returned

\* data.findings.forEach from position i (1-based here, index i - 1 there).
RECURSIVE forEachFinding(_, _)
forEachFinding(items, i) ==
    IF i > Len(items) THEN Returned
    ELSE IF validateFinding(items[i], i - 1).threw
         THEN validateFinding(items[i], i - 1)
    ELSE forEachFinding(items, i + 1)

\* validateWorkData (lines 28-58).
validateWorkData(data) ==
    IF data.t = "null" THEN Threw(TypeErrorMessage("project_id"))
    ELSE IF MissingOrInvalid(data.project_id)
         THEN Threw(<<"Missing or invalid ", "project_id">>)
    ELSE IF MissingOrInvalid(data.reported_by_agent)
         THEN Threw(<<"Missing or invalid ", "reported_by_agent">>)
    ELSE IF data.findings.t # "array"
         THEN Threw(<<"findings", " must be an array">>)
    ELSE forEachFinding(data.findings.items, 1)

\* JSON.parse (line 66).
JSONparse(text) ==
    IF text.k = "json" THEN Returned ELSE Threw(SyntaxErrorMessage)

\* The synchronous part of handleSubmit's try block (lines 66-68): what it
\* throws before any request is made, if anything.
parseAndValidate(text) ==
    IF JSONparse(text).threw THEN JSONparse(text) ELSE validateWorkData(text.value)

\* The body of a successful response, and the ways a request ends.
ResultValues == {[unique |-> 1, duplicated |-> 1, disputed |-> 0]}

Responses ==
    {[kind |-> "ok", result |-> r] : r \in ResultValues}
       \cup {[kind |-> k, result |-> [unique |-> 0, duplicated |-> 0, disputed |-> 0]] :
                k \in {"status", "network"}}

ErrApi == <<"Failed to process findings. Please try again.">>

\* The component's state (lines 22-26), and the requests made to
\* /api/process_findings that await their response. outcomes is <<>> for null.
VARIABLES formData, showModal, error, outcomes, loading, requests

page == <<formData, showModal, error, outcomes, loading, requests>>

DeliverInit ==
    /\ formData = EmptyText
    /\ showModal = FALSE
    /\ error = <<>>
    /\ outcomes = <<>>
    /\ loading = FALSE
    /\ requests = <<>>

\* handleChange (lines 99-102); the textarea is disabled while loading.
handleChange(text) ==
    /\ ~loading
    /\ formData' = text
    /\ error' = <<>>
    /\ UNCHANGED <<showModal, outcomes, loading, requests>>

HandleChange == \E text \in Texts \cup {EmptyText} : handleChange(text)

\* handleSubmit up to its first await (lines 60-77) or, when the try block
\* throws, to its end (lines 91-96). The form is not submitted while the
\* required textarea is empty or the button is disabled.
handleSubmit ==
    /\ ~loading
    /\ formData # EmptyText
    /\ UNCHANGED <<formData, showModal, outcomes>>
    /\ IF parseAndValidate(formData).threw
       THEN /\ error' = parseAndValidate(formData).message
            /\ loading' = FALSE
            /\ UNCHANGED requests
       ELSE /\ requests' = Append(requests, JsonText(formData.value))
            /\ error' = <<>>
            /\ loading' = TRUE

\* handleSubmit from the end of the await (lines 79-96).
handleResponse(response) ==
    /\ loading
    /\ requests' = Tail(requests)
    /\ loading' = FALSE
    /\ IF response.kind = "ok"
       THEN /\ outcomes' = <<response.result>>
            /\ showModal' = TRUE
            /\ UNCHANGED <<formData, error>>
       ELSE /\ error' = ErrApi
            /\ UNCHANGED <<formData, showModal, outcomes>>

HandleResponse == \E response \in Responses : handleResponse(response)

\* The modal's two close buttons (lines 153 and 197).
closeModal ==
    /\ showModal
    /\ showModal' = FALSE
    /\ UNCHANGED <<formData, error, outcomes, loading, requests>>

\* ------------------------------------------------ claims on the page

NonEmptyString(x) == x.t = "string" /\ x.v # ""

\* Finding i of the array has field number k present as a non-empty string.
FieldHolds(items, i, k) ==
    items[i].t = "object" /\ NonEmptyString(items[i].f[FindingFields[k]])

\* The batch the validator is to accept.
WellFormedBatch(data) ==
    /\ data.t = "object"
    /\ NonEmptyString(data.project_id)
    /\ NonEmptyString(data.reported_by_agent)
    /\ data.findings.t = "array"
    /\ Len(data.findings.items) >= 1
    /\ \A i \in 1..Len(data.findings.items), k \in 1..5 :
          FieldHolds(data.findings.items, i, k)

\* Some piece of the message is this text.
Mentions(message, text) == \E i \in 1..Len(message) : message[i] = text

\* C13: the validator accepts only well-formed batches (project_id and
\* reported_by_agent non-empty strings, findings a non-empty sequence of
\* findings whose five fields are non-empty strings): every request the page
\* sends carries a well-formed batch, and none with an empty findings list.
C13_AcceptsOnlyWellFormed ==
    \A i \in 1..Len(requests) : WellFormedBatch(requests[i].value)

\* The first field of the batch, in the validator's order, that is not as
\* WellFormedBatch wants it: the name of a top-level field, or the 1-based
\* ordinal of a finding and the name of one of its fields.
FirstViolation(data) ==
    LET items == data.findings.items
        bad == {i \in 1..Len(items) : \E k \in 1..5 : ~FieldHolds(items, i, k)}
        first == CHOOSE i \in bad : \A j \in bad : i <= j
        field == CHOOSE k \in 1..5 :
                    /\ ~FieldHolds(items, first, k)
                    /\ \A j \in 1..(k - 1) : FieldHolds(items, first, j)
    IN  IF data.t # "object" \/ ~NonEmptyString(data.project_id)
           THEN <<"project_id">>
        ELSE IF ~NonEmptyString(data.reported_by_agent)
           THEN <<"reported_by_agent">>
        ELSE IF data.findings.t # "array" \/ items = <<>>
           THEN <<"findings">>
        ELSE <<ToString(first), FindingFields[field]>>

\* C14: submitting a batch that is not well-formed reports one error, the one
\* of the first violated field in the order project_id, reported_by_agent,
\* findings, then finding by finding and field by field; the error of a
\* finding's field names the finding's 1-based ordinal and the field.
C14_FirstViolationReported ==
    [][UNCHANGED page
       \/ ((handleSubmit /\ formData.k = "json"
               /\ ~WellFormedBatch(formData.value))
            => /\ error' # <<>>
               /\ \A j \in 1..Len(FirstViolation(formData.value)) :
                     Mentions(error', FirstViolation(formData.value)[j]))]_page

\* C15: the error shown for a validation failure caused by a finding names
\* that finding's ordinal position and its finding_id.
C15_ErrorNamesFindingId ==
    [][UNCHANGED page
       \/ LET data == formData.value
              first == FirstViolation(data)
              n == CHOOSE i \in 1..Len(data.findings.items) : ToString(i) = first[1]
          IN  (/\ handleSubmit
               /\ formData.k = "json"
               /\ ~WellFormedBatch(data)
               /\ Len(first) = 2
               /\ data.findings.items[n].t = "object"
               /\ NonEmptyString(data.findings.items[n].f.finding_id))
              => /\ Mentions(error', ToString(n))
                 /\ Mentions(error', data.findings.items[n].f.finding_id.v)]_page

\* The submitted text is not valid JSON, or some field of the batch or of one
\* of its findings fails validation.
Malformed(text) ==
    \/ text.k # "json"
    \/ text.value.t # "object"
    \/ ~NonEmptyString(text.value.project_id)
    \/ ~NonEmptyString(text.value.reported_by_agent)
    \/ text.value.findings.t # "array"
    \/ \E i \in 1..Len(text.value.findings.items), k \in 1..5 :
          ~FieldHolds(text.value.findings.items, i, k)

\* C16: submitting a malformed batch sends no request to /api/process_findings
\* (so nothing reaches the store), shows no outcome counts for it (outcomes
\* and the modal stay as they were), and leaves an error displayed.
C16_MalformedRejectedWholesale ==
    [][UNCHANGED page
       \/ ((handleSubmit /\ Malformed(formData))
            => /\ requests' = <<>>
               /\ outcomes' = outcomes /\ showModal' = showModal
               /\ error' # <<>> /\ error' # ErrApi
               /\ ~loading')]_page

\* A two-finding batch was refused with a validation error after an earlier
\* batch had been processed.
C16_Witness ==
    /\ formData.k = "json" /\ Len(formData.value.findings.items) = 2
    /\ Malformed(formData)
    /\ error # <<>> /\ error # ErrApi
    /\ outcomes # <<>>
    /\ requests = <<>> /\ ~loading

\* ================================================ TaskLeaderboard (frontend)

\* The longest /api/statistics response.
MaxRows == 3

ProjectIds == {"AD1", "AD2"}
AgentIds == {"a1", "a2", "a3"}
Counts == {0, 1}

\* A row of the response (interface AgentStats, lines 6-12).
AgentStats(project_id, agent_id, unique_count) ==
    [project_id |-> project_id, agent_id |-> agent_id,
     unique_count |-> unique_count, duplicated_count |-> 0, disputed_count |-> 0]

\* The responses: up to MaxRows rows, in any order, one row at most for a
\* project and an agent.
StatisticsResponses ==
    LET rows == {AgentStats(p, a, c) : p \in ProjectIds, a \in AgentIds, c \in Counts}
    IN  {d \in UNION {[1..n -> rows] : n \in 0..MaxRows} :
            \A i, j \in 1..Len(d) :
               (d[i].project_id = d[j].project_id /\ d[i].agent_id = d[j].agent_id)
                  => i = j}

\* Array.prototype.sort with (a, b) => b.unique_count - a.unique_count
\* (line 37): descending, rows that compare equal keep their order.
RECURSIVE sortByUniqueCount(_)
sortByUniqueCount(rows) ==
    IF rows = <<>> THEN <<>>
    ELSE LET sorted == sortByUniqueCount(SubSeq(rows, 1, Len(rows) - 1))
             row == rows[Len(rows)]
             k == Cardinality({i \in 1..Len(sorted) :
                                  sorted[i].unique_count >= row.unique_count})
         IN  SubSeq(sorted, 1, k) \o <<row>> \o SubSeq(sorted, k + 1, Len(sorted))

\* projectStats (lines 35-37).
projectStats(rows, id) ==
    sortByUniqueCount(SelectSeq(rows, LAMBDA stat : stat.project_id = id))

\* The component's state (lines 15-18) with its taskId prop ("" before it is
\* mounted) and the response it parsed last; statsError and statsLoading are
\* its error and loading.
VARIABLES taskId, showLeaderboard, stats, statsError, statsLoading, data

board == <<taskId, showLeaderboard, stats, statsError, statsLoading, data>>

BoardInit ==
    /\ taskId = ""
    /\ showLeaderboard = FALSE
    /\ stats = <<>>
    /\ statsError = ""
    /\ statsLoading = FALSE
    /\ data = <<>>

\* The component is mounted for a task: the effect of lines 48-50 calls
\* fetchStats, which runs to its await (lines 20-28).
fetchStats(id) ==
    /\ taskId = ""
    /\ taskId' = id
    /\ statsLoading' = TRUE
    /\ statsError' = ""
    /\ UNCHANGED <<showLeaderboard, stats, data>>

FetchStats == \E id \in ProjectIds : fetchStats(id)

\* fetchStats after a response with rows (lines 32-39 and 42-44).
fetchStatsResponse(rows) ==
    /\ statsLoading
    /\ data' = rows
    /\ stats' = projectStats(rows, taskId)
    /\ statsLoading' = FALSE
    /\ UNCHANGED <<taskId, showLeaderboard, statsError>>

FetchStatsResponse ==
    statsLoading /\ \E rows \in StatisticsResponses : fetchStatsResponse(rows)

\* fetchStats after a failed request (lines 29-31 and 40-44).
fetchStatsFailed ==
    /\ statsLoading
    /\ statsError' = "HTTP error! status: 500"
    /\ statsLoading' = FALSE
    /\ UNCHANGED <<taskId, showLeaderboard, stats, data>>

\* The Show/Hide button (line 55).
toggleLeaderboard ==
    /\ taskId # ""
    /\ showLeaderboard' = ~showLeaderboard
    /\ UNCHANGED <<taskId, stats, statsError, statsLoading, data>>

\* -------------------------------------------- claims on the leaderboard

\* When each agent first contributed, in the scenario checked: a1, then a2,
\* then a3. The response carries no such time.
FirstContributionAt == [a1 |-> 1, a2 |-> 2, a3 |-> 3]

\* C17: the leaderboard of a project holds exactly the rows of the statistics
\* whose project_id is that project, by unique_count descending, rows of equal
\* unique_count by earliest first contribution.
C17_LeaderboardOrder ==
    /\ Len(stats) = Len(SelectSeq(data, LAMBDA stat : stat.project_id = taskId))
    /\ {stats[i] : i \in 1..Len(stats)}
          = {data[i] : i \in {j \in 1..Len(data) : data[j].project_id = taskId}}
    /\ \A i, j \in 1..Len(stats) :
          i < j =>
             \/ stats[i].unique_count > stats[j].unique_count
             \/ /\ stats[i].unique_count = stats[j].unique_count
                /\ FirstContributionAt[stats[i].agent_id]
                      < FirstContributionAt[stats[j].agent_id]

\* ==================================== findings pipeline (backend, off-chain)
\* The backend that serves /api/process_findings is described by the
\* specification (sections 3, 4.3-4.5 and 5); this part models that text.

\* The most Findings the history of all projects holds together.
MaxHistory == 3

PipelineAgents == {"a1", "a2"}
FindingIds == <<"F1", "F2">>

\* What the deduplication compares: description, code reference, severity.
Content(description, code_reference, severity) ==
    [description |-> description, code_reference |-> code_reference,
     severity |-> severity]

\* One issue as two agents may word it, and a finding at another location
\* whose description is that of the first wording: near-duplicates of each
\* other the first two, in the gray band the third with the first, unrelated
\* the third and the second.
Contents ==
    {Content("d1", "c1", "HIGH"), Content("d2", "c1", "HIGH"),
     Content("d1", "c2", "LOW")}

\* The similarity signal of two contents (section 4.3): beyond the high
\* threshold when code reference and severity overlap, in the gray band when
\* the signals conflict (same location with contradictory severity, or same
\* description at another location), below the low threshold otherwise.
Similarity(c, d) ==
    IF c.code_reference = d.code_reference
    THEN IF c.severity = d.severity THEN "high" ELSE "gray"
    ELSE IF c.description = d.description THEN "gray" ELSE "low"

\* A finding that has no outcome (yet): its classification is deferred.
Deferred == "deferred"

\* ClassificationOutcome.
Outcomes == {"unique", "duplicated", "disputed"}

\* The oracle's verdicts and their outcomes (section 4.4); the call may also
\* fail or time out.
Verdicts == {"same-issue", "different-issue", "contested"}
OracleUnavailable == "unavailable"

\* VerdictOutcome that takes a failed oracle call for a different issue.
VerdictOutcomeDefaultUnique(verdict) ==
    CASE verdict = "same-issue" -> "duplicated"
      [] verdict = "contested" -> "disputed"
      [] OTHER -> "unique"

VerdictOutcome(verdict) ==
    CASE verdict = "same-issue" -> "duplicated"
      [] verdict = "different-issue" -> "unique"
      [] verdict = "contested" -> "disputed"
      [] OTHER -> Deferred

\* The findings a valid request carries: their finding ids are distinct
\* (here each agent numbers the findings of a batch F1, F2).
BatchFindings ==
    {[i \in 1..n |-> [finding_id |-> FindingIds[i], content |-> c[i]]] :
        n \in 0..Len(FindingIds), c \in [1..Len(FindingIds) -> Contents]}

\* The requests: any batch of any agent for project AD1; for project AD2,
\* which is there for what two projects do to each other, single findings of
\* agent a1.
Submissions ==
    {[project_id |-> "AD1", reported_by_agent |-> a, findings |-> b] :
        a \in PipelineAgents, b \in BatchFindings}
       \cup {[project_id |-> "AD2", reported_by_agent |-> "a1", findings |-> b] :
                b \in {c \in BatchFindings : Len(c) = 1}}

\* history: for each project the Findings recorded, oldest first, each with
\* its project, agent, finding id, content and outcome. agentStat: the
\* AgentStat counters of each (project, agent). batches: for each project the
\* batch inside its critical section, with the findings still to classify,
\* the length of the history when it entered, its Findings classified so far
\* and the counts of this batch.
VARIABLES history, agentStat, batches

pipeline == <<history, agentStat, batches>>

NoCounts == [unique |-> 0, duplicated |-> 0, disputed |-> 0]

NoBatch ==
    [active |-> FALSE, agent |-> "", queue |-> <<>>, start |-> 0, done |-> <<>>,
     counts |-> NoCounts]

PipelineInit ==
    /\ history = [p \in ProjectIds |-> <<>>]
    /\ agentStat = [k \in ProjectIds \X PipelineAgents |-> NoCounts]
    /\ batches = [p \in ProjectIds |-> NoBatch]

Finding(project_id, agent_id, finding, outcome) ==
    [project_id |-> project_id, agent_id |-> agent_id,
     finding_id |-> finding.finding_id, content |-> finding.content,
     outcome |-> outcome]

\* Candidates as a batch that did not see the other batches of its project
\* would have them: its own Findings only.
CandidatesOwnBatch(project_id) ==
    {i \in 1..Len(history[project_id]) :
        /\ i > batches[project_id].start
        /\ history[project_id][i].outcome \in Outcomes}

\* The candidates a new Finding is compared against: the Findings of the
\* project whose outcome is fixed.
Candidates(project_id) ==
    {i \in 1..Len(history[project_id]) :
        history[project_id][i].outcome \in Outcomes}

\* Regime without the clearly matching one: whatever is not novel goes to
\* the oracle.
RegimeNoMatching(project_id, content) ==
    IF \E i \in Candidates(project_id) :
          Similarity(content, history[project_id][i].content) # "low"
       THEN "ambiguous"
    ELSE "novel"

\* The three regimes of section 4.3: a Finding beyond the high threshold with
\* a candidate is clearly matching, one in the gray band with a candidate and
\* beyond the high threshold with none is ambiguous.
Regime(project_id, content) ==
    IF \E i \in Candidates(project_id) :
          Similarity(content, history[project_id][i].content) = "high"
       THEN "matching"
    ELSE IF \E i \in Candidates(project_id) :
          Similarity(content, history[project_id][i].content) = "gray"
       THEN "ambiguous"
    ELSE "novel"

\* The outcomes the classification of a content can end with: decided by the
\* engine, or by whatever the oracle answers, or none when the oracle fails.
PossibleOutcomes(project_id, content) ==
    CASE Regime(project_id, content) = "novel" -> {"unique"}
      [] Regime(project_id, content) = "matching" -> {"duplicated"}
      [] OTHER -> {VerdictOutcome(v) : v \in Verdicts \cup {OracleUnavailable}}

\* Increment that leaves the duplicated counter alone.
IncrementNoDuplicates(counts, outcome) ==
    CASE outcome = "unique" -> [counts EXCEPT !.unique = @ + 1]
      [] outcome = "disputed" -> [counts EXCEPT !.disputed = @ + 1]
      [] OTHER -> counts

\* The counters after one more Finding with this outcome.
Increment(counts, outcome) ==
    CASE outcome = "unique" -> [counts EXCEPT !.unique = @ + 1]
      [] outcome = "duplicated" -> [counts EXCEPT !.duplicated = @ + 1]
      [] outcome = "disputed" -> [counts EXCEPT !.disputed = @ + 1]
      [] OTHER -> counts

\* The position in the queue of the finding classified next, taking the
\* newest first.
NextFindingNewestFirst(queue) == Len(queue)

\* The position in the queue of the finding classified next: findings are
\* processed in the order submitted.
NextFinding(queue) == 1

\* The Findings the bound leaves room for.
Room ==
    MaxHistory - Len(history["AD1"]) - Len(history["AD2"])
       - Len(batches["AD1"].queue) - Len(batches["AD2"].queue)

\* POST /api/process_findings with a valid batch: the batch enters the
\* critical section of its project, once no other batch is inside.
ProcessFindings(project_id, agent_id, findings) ==
    /\ ~batches[project_id].active
    /\ Len(findings) <= Room
    /\ batches' = [batches EXCEPT ![project_id] =
                      [active |-> TRUE, agent |-> agent_id, queue |-> findings,
                       start |-> Len(history[project_id]), done |-> <<>>,
                       counts |-> NoCounts]]
    /\ UNCHANGED <<history, agentStat>>

\* The next finding of the batch of a project is classified and recorded as a
\* Finding, and in the same transaction its outcome is written and its
\* counter incremented. Every finding submitted becomes a Finding of its own:
\* one submitted again is compared with the one recorded before, whose
\* outcome stays as it is.
Classify(project_id, outcome) ==
    LET batch == batches[project_id]
        finding == batch.queue[NextFinding(batch.queue)]
        new == Finding(project_id, batch.agent, finding, outcome)
    IN  /\ batch.active /\ batch.queue # <<>>
        /\ outcome \in PossibleOutcomes(project_id, finding.content)
        /\ history' = [history EXCEPT ![project_id] = Append(@, new)]
        /\ agentStat' = [agentStat EXCEPT ![<<project_id, batch.agent>>] =
                           Increment(@, outcome)]
        /\ batches' = [batches EXCEPT
                         ![project_id].queue =
                            SubSeq(@, 1, NextFinding(@) - 1)
                               \o SubSeq(@, NextFinding(@) + 1, Len(@)),
                         ![project_id].done = Append(@, new),
                         ![project_id].counts = Increment(@, outcome)]

\* Response with the agent's counts in the project since its first batch.
ResponseCumulative(project_id) ==
    LET counts == agentStat[<<project_id, batches[project_id].agent>>]
    IN  [unique |-> counts.unique, duplicated |-> counts.duplicated,
         disputed |-> counts.disputed]

\* The body of the response of POST /api/process_findings: the counts of the
\* batch inside the critical section of the project.
Response(project_id) ==
    LET counts == batches[project_id].counts
    IN  [unique |-> counts.unique, duplicated |-> counts.duplicated,
         disputed |-> counts.disputed]

\* The batch is done: its counts are the response, and it leaves the
\* critical section.
Respond(project_id) ==
    /\ batches[project_id].active /\ batches[project_id].queue = <<>>
    /\ batches' = [batches EXCEPT ![project_id] = NoBatch]
    /\ UNCHANGED <<history, agentStat>>

\* ---------------------------------------------- claims on the pipeline

\* C18: a finding classified when the project holds nothing like it is
\* unique and adds 1 to its agent's unique_count only; a finding whose
\* description, code reference and severity are those of a Finding of the
\* project recorded as unique before (by this agent or another) is duplicated
\* and adds 1 to its agent's duplicated_count only.
C18_IdenticalFindingTwice ==
    [][UNCHANGED pipeline
       \/ \A p \in ProjectIds, o \in Outcomes \cup {Deferred} :
             Classify(p, o) =>
                LET c == batches[p].queue[1].content
                    k == <<p, batches[p].agent>>
                IN  /\ (\A i \in 1..Len(history[p]) :
                           Similarity(c, history[p][i].content) = "low")
                          => /\ o = "unique"
                             /\ agentStat'[k]
                                   = [agentStat[k] EXCEPT !.unique = @ + 1]
                    /\ (\E i \in 1..Len(history[p]) :
                           /\ history[p][i].content = c
                           /\ history[p][i].outcome = "unique")
                          => /\ o = "duplicated"
                             /\ agentStat'[k]
                                   = [agentStat[k] EXCEPT !.duplicated = @ + 1]]_pipeline

\* Agent a1 reported a finding and agent a2 the same finding in a later batch.
C18_Witness ==
    /\ ~batches["AD1"].active
    /\ Len(history["AD1"]) = 2
    /\ history["AD1"][1].content = history["AD1"][2].content
    /\ history["AD1"][1].agent_id = "a1" /\ history["AD1"][1].outcome = "unique"
    /\ history["AD1"][2].agent_id = "a2" /\ history["AD1"][2].outcome = "duplicated"
    /\ agentStat[<<"AD1", "a1">>] = [unique |-> 1, duplicated |-> 0, disputed |-> 0]
    /\ agentStat[<<"AD1", "a2">>] = [unique |-> 0, duplicated |-> 1, disputed |-> 0]

\* C19: the findings of a batch are classified in the order submitted, each
\* against the earlier ones already fixed: of two near-duplicates in a batch
\* the later one is duplicated once the earlier has an outcome, so never both
\* are unique; and when the project held nothing like them the earlier is
\* unique and the later duplicated, whichever of the two comes first.
C19_BatchOrder ==
    /\ [](\A p \in ProjectIds :
            LET done == batches[p].done IN
            \A i, j \in 1..Len(done) :
               (i < j /\ Similarity(done[i].content, done[j].content) = "high")
                  => /\ ~(done[i].outcome = "unique" /\ done[j].outcome = "unique")
                     /\ done[i].outcome \in Outcomes => done[j].outcome = "duplicated"
                     /\ (\A k \in 1..(batches[p].start + i - 1) :
                            Similarity(history[p][k].content, done[i].content) = "low")
                           => done[i].outcome = "unique")
    /\ [][UNCHANGED pipeline
          \/ \A p \in ProjectIds, o \in Outcomes \cup {Deferred} :
                Classify(p, o) =>
                   /\ batches'[p].queue = Tail(batches[p].queue)
                   /\ history'[p][Len(history'[p])].content
                         = batches[p].queue[1].content
                   /\ history'[p][Len(history'[p])].finding_id
                         = batches[p].queue[1].finding_id]_pipeline

\* A batch of two near-duplicates, the wording d2 first, into a project that
\* held nothing: the first is unique, the second duplicated.
C19_Witness ==
    LET done == batches["AD1"].done IN
    /\ Len(done) = 2 /\ batches["AD1"].start = 0
    /\ done[1].content = Content("d2", "c1", "HIGH")
    /\ done[2].content = Content("d1", "c1", "HIGH")
    /\ done[1].outcome = "unique" /\ done[2].outcome = "duplicated"

\* The Findings of an agent in a project that hold an outcome.
Holding(p, a, outcome) ==
    {i \in 1..Len(history[p]) :
        history[p][i].agent_id = a /\ history[p][i].outcome = outcome}

\* C20: for every project and agent the three AgentStat counters are the
\* numbers of the agent's Findings in the project holding the outcome, in
\* every state: no outcome is recorded without its increment, no increment
\* without its outcome, and a finding without outcome is in no counter.
C20_CountersMatchFindings ==
    \A p \in ProjectIds, a \in PipelineAgents :
       /\ agentStat[<<p, a>>].unique = Cardinality(Holding(p, a, "unique"))
       /\ agentStat[<<p, a>>].duplicated = Cardinality(Holding(p, a, "duplicated"))
       /\ agentStat[<<p, a>>].disputed = Cardinality(Holding(p, a, "disputed"))

\* Agent a2 holds a duplicated and a disputed Finding and one without
\* outcome, after agent a1's unique one.
C20_Witness ==
    /\ agentStat[<<"AD1", "a1">>].unique = 1
    /\ agentStat[<<"AD1", "a2">>].duplicated + agentStat[<<"AD1", "a2">>].disputed = 1
    /\ Holding("AD1", "a2", Deferred) # {}

\* C21: the batches of a project go through its critical section one at a
\* time: a batch enters only when none is inside, while it is inside every
\* Finding added to the project's history is its own, and so of two Findings
\* of a project that report the same issue, whichever batches they came in,
\* at most one is unique. Batches of different projects are inside their
\* critical sections at the same time.
C21_SerializedPerProject ==
    /\ [](\A p \in ProjectIds :
            /\ \A i, j \in 1..Len(history[p]) :
                  (i < j /\ Similarity(history[p][i].content,
                                       history[p][j].content) = "high")
                     => ~(history[p][i].outcome = "unique"
                             /\ history[p][j].outcome = "unique")
            /\ batches[p].active =>
                  /\ batches[p].start + Len(batches[p].done) = Len(history[p])
                  /\ \A i \in 1..Len(batches[p].done) :
                        /\ history[p][batches[p].start + i] = batches[p].done[i]
                        /\ batches[p].done[i].agent_id = batches[p].agent)
    /\ [][UNCHANGED pipeline
          \/ \A p \in ProjectIds :
                /\ (batches[p].active /\ batches'[p].active)
                      => /\ batches'[p].agent = batches[p].agent
                         /\ batches'[p].start = batches[p].start
                /\ history'[p] # history[p]
                      => /\ batches[p].active /\ batches'[p].active
                         /\ Len(history'[p]) = Len(history[p]) + 1
                         /\ history'[p][Len(history'[p])].agent_id
                               = batches[p].agent]_pipeline

\* Agent a2's batch is inside the critical section of project AD1 with the
\* issue agent a1's earlier batch reported, while a batch of project AD2 is
\* inside its own and has a Finding classified too.
C21_Witness ==
    /\ batches["AD1"].active /\ batches["AD1"].agent = "a2"
    /\ batches["AD1"].start = 1 /\ Len(batches["AD1"].done) = 1
    /\ history["AD1"][1].agent_id = "a1" /\ history["AD1"][1].outcome = "unique"
    /\ Similarity(history["AD1"][1].content, history["AD1"][2].content) = "high"
    /\ history["AD1"][2].outcome = "duplicated"
    /\ batches["AD2"].active /\ Len(batches["AD2"].done) = 1

\* The sum of the three counters.
Total(counts) == counts.unique + counts.duplicated + counts.disputed

\* C22: the oracle call for an ambiguous finding may fail, and then the
\* finding is recorded without outcome: it is not unique, no AgentStat
\* counter and no count of the batch moves, and the batch goes on: it stays
\* inside its critical section with the remaining findings, each of which
\* can be classified.
C22_OracleFailureDefers ==
    /\ [](\A p \in ProjectIds :
            (batches[p].active /\ batches[p].queue # <<>>) =>
               /\ \E o \in Outcomes \cup {Deferred} : ENABLED Classify(p, o)
               /\ Regime(p, batches[p].queue[1].content) = "ambiguous"
                     => ENABLED Classify(p, Deferred))
    /\ [][UNCHANGED pipeline
          \/ \A p \in ProjectIds :
                Classify(p, Deferred) =>
                   /\ Regime(p, batches[p].queue[1].content) = "ambiguous"
                   /\ history'[p][Len(history'[p])].outcome \notin Outcomes
                   /\ agentStat' = agentStat
                   /\ batches'[p].counts = batches[p].counts
                   /\ batches'[p].active
                   /\ batches'[p].queue = Tail(batches[p].queue)]_pipeline

\* The first finding of agent a2's batch is without outcome, the second has
\* one, and a2's counters hold one Finding.
C22_Witness ==
    LET done == batches["AD1"].done IN
    /\ batches["AD1"].active /\ batches["AD1"].agent = "a2"
    /\ Len(done) = 2
    /\ done[1].outcome = Deferred /\ done[2].outcome \in Outcomes
    /\ Total(agentStat[<<"AD1", "a2">>]) = 1
    /\ Total(batches["AD1"].counts) = 1

\* The findings of the batch inside a project that hold an outcome.
DoneWith(p, outcome) ==
    {i \in 1..Len(batches[p].done) : batches[p].done[i].outcome = outcome}

\* C23: when a batch is responded to, every finding of it has been handled,
\* each count of the response is the number of the batch's findings that got
\* that outcome, and so the three counts add up to the number of findings of
\* the batch with a definitive outcome, those without outcome left out and
\* the agent's earlier batches not counted.
C23_ResponseCountsBatch ==
    [][UNCHANGED pipeline
       \/ \A p \in ProjectIds :
             Respond(p) =>
                /\ batches[p].queue = <<>>
                /\ Response(p).unique = Cardinality(DoneWith(p, "unique"))
                /\ Response(p).duplicated = Cardinality(DoneWith(p, "duplicated"))
                /\ Response(p).disputed = Cardinality(DoneWith(p, "disputed"))
                /\ Total(Response(p))
                      = Len(batches[p].done) - Cardinality(DoneWith(p, Deferred))]_pipeline

\* Agent a1's second batch is about to be responded to: one of its two
\* findings has no outcome, and a1 holds a Finding from its first batch.
C23_Witness ==
    /\ batches["AD1"].active /\ batches["AD1"].agent = "a1"
    /\ batches["AD1"].queue = <<>> /\ batches["AD1"].start = 1
    /\ history["AD1"][1].agent_id = "a1"
    /\ Cardinality(DoneWith("AD1", Deferred)) = 1
    /\ Total(Response("AD1")) = 1
    /\ Total(agentStat[<<"AD1", "a1">>]) = 2

\* ======================================================== specifications

\* The contract, the deliver-work page, the leaderboard and the findings
\* pipeline are run one at a time: each specification moves the variables of
\* one of them and leaves the others in their initial state.
offChain == <<page, board, pipeline>>

allVars == <<vars, offChain>>

InitAll == Init /\ DeliverInit /\ BoardInit /\ PipelineInit

\* The TaskManager contract.
Next ==
    \/ SubmitTask /\ UNCHANGED offChain
    \/ CancelTask /\ UNCHANGED offChain
    \/ ReceiveAccept /\ UNCHANGED offChain
    \/ ReceiveReject /\ UNCHANGED offChain
    \/ GetTask /\ UNCHANGED offChain
    \/ GetAllTasks /\ UNCHANGED offChain

Spec == InitAll /\ [][Next]_allVars

\* The deliver-work page.
NextDeliverWork ==
    \/ HandleChange /\ UNCHANGED <<vars, board, pipeline>>
    \/ handleSubmit /\ UNCHANGED <<vars, board, pipeline>>
    \/ HandleResponse /\ UNCHANGED <<vars, board, pipeline>>
    \/ closeModal /\ UNCHANGED <<vars, board, pipeline>>

SpecDeliverWork == InitAll /\ [][NextDeliverWork]_allVars

\* The leaderboard of one task.
NextLeaderboard ==
    \/ FetchStats /\ UNCHANGED <<vars, page, pipeline>>
    \/ FetchStatsResponse /\ UNCHANGED <<vars, page, pipeline>>
    \/ fetchStatsFailed /\ UNCHANGED <<vars, page, pipeline>>
    \/ toggleLeaderboard /\ UNCHANGED <<vars, page, pipeline>>

SpecLeaderboard == InitAll /\ [][NextLeaderboard]_allVars

\* The findings pipeline.
NextPipeline ==
    \/ \E s \in Submissions :
          ProcessFindings(s.project_id, s.reported_by_agent, s.findings)
             /\ UNCHANGED <<vars, page, board>>
    \/ \E p \in ProjectIds, o \in Outcomes \cup {Deferred} :
          Classify(p, o) /\ UNCHANGED <<vars, page, board>>
    \/ \E p \in ProjectIds : Respond(p) /\ UNCHANGED <<vars, page, board>>

SpecPipeline == InitAll /\ [][NextPipeline]_allVars

====
